---- MODULE Spec2Model ----
(***************************************************************************)
(* Rainwater-harvesting core: WaterBalanceEngine (calculateInflow,         *)
(* runSimulation, scanTankSizes) and RainfallEngine.generate.              *)
(*                                                                         *)
(* Numbers.  JavaScript doubles are modelled as exact fixed-point          *)
(* integers:                                                               *)
(*   rain_mm, firstFlushLoss        hundredths of a millimetre             *)
(*   runoffCoefficient, gutterEff.  percent                                *)
(*   roof area                      whole square metres                    *)
(*   litres (inflow, storage, tank) hundredths of a litre                  *)
(* The value NaN is carried explicitly; the arithmetic and comparison      *)
(* operators below follow IEEE/ECMAScript for it.                          *)
(***************************************************************************)
EXTENDS Integers, Sequences, FiniteSets, TLC

VARIABLES
    \* ---- water balance (handleRunAnalysis -> WaterBalanceEngine) ----
    rainData,          \* RainfallDataRow[] handed to calculateInflow
    config,            \* InflowConfig handed to calculateInflow
    wbConfig,          \* Omit<WaterBalanceConfig,'tankCapacity'>
    minSize, maxSize, steps,   \* arguments of scanTankSizes
    inflowData,        \* result of calculateInflow
    results,           \* scanTankSizes: results
    i,                 \* scanTankSizes: loop index
    capacity,          \* runSimulation: wbConfig.tankCapacity of the running call
    storage, daysMet, totalInflow, totalDemandValue, droughtDays,  \* runSimulation locals
    day,               \* runSimulation: index of the next forEach element
    afterInflow,       \* runSimulation: storage right after line 38 of the last day
    pc,                \* control point of the water-balance run
    \* ---- rainfall generation (handleGenerateRainfall -> RainfallEngine) ----
    params, years, seed,   \* arguments of generate
    data,              \* generate: data
    state,             \* seedableRandom: state of the stream
    isWet, currentYear, currentDayOfYear,   \* generate locals
    spellLength,       \* generate: spellLength of the running spell
    spellI,            \* generate: i of the for loop
    call,              \* which of the two calls is running
    firstData,         \* what the first call returned
    gpc,               \* control point of generate
    \* ---- calibration (handleFileUpload -> the two analyzers) ----
    hist,              \* HistoricalRecord[] handed to both analyzers
    counts, spells,    \* TransitionAnalyzer.analyze: counts, spells
    currentSpellLength, isCurrentWet,   \* TransitionAnalyzer.analyze locals
    ci,                \* index of the running loop (i of the pair loop, forEach)
    transitions,       \* result of TransitionAnalyzer.analyze
    monthData,         \* IntensityAnalyzer.analyze: monthData
    intensities,       \* result of IntensityAnalyzer.analyze
    merged,            \* handleFileUpload: the merged MonthlyParameters[]
    cpc                \* control point of the calibration

wbVars == << rainData, config, wbConfig, minSize, maxSize, steps, inflowData,
             results, i, capacity, storage, daysMet, totalInflow,
             totalDemandValue, droughtDays, day, afterInflow, pc >>

genVars == << params, years, seed, data, state, isWet, currentYear,
              currentDayOfYear, spellLength, spellI, call, firstData, gpc >>

calVars == << hist, counts, spells, currentSpellLength, isCurrentWet, ci,
              transitions, monthData, intensities, merged, cpc >>

vars == << wbVars, genVars, calVars >>

---------------------------------------------------------------------------
(* ECMAScript number semantics for the one non-finite value that occurs.   *)

\* undefined * undefined (part_000 line 5 on a config without the flat fields)
NaN == -999999999

JsMul(a, b) == IF a = NaN \/ b = NaN THEN NaN ELSE a * b
JsAdd(a, b) == IF a = NaN \/ b = NaN THEN NaN ELSE a + b
JsSub(a, b) == IF a = NaN \/ b = NaN THEN NaN ELSE a - b
JsMin(a, b) == IF a = NaN \/ b = NaN THEN NaN ELSE IF a <= b THEN a ELSE b
JsMax(a, b) == IF a = NaN \/ b = NaN THEN NaN ELSE IF a >= b THEN a ELSE b
\* a >= b is false as soon as an operand is NaN
JsGe(a, b) == a # NaN /\ b # NaN /\ a >= b

\* obj.name for a numeric property; reading an absent property gives
\* undefined, which every arithmetic operator turns into NaN
NumProp(obj, name) == IF name \in DOMAIN obj THEN obj[name] ELSE NaN

---------------------------------------------------------------------------
(* Bounds and input families                                               *)

MaxDays == 4

\* rain_mm values of the rows fed to calculateInflow (hundredths of mm):
\* dry, below the first flush, 2 mm, 10 mm
RainVals == {0, 30, 200, 1000}

RainSeqs == UNION { [1..n -> RainVals] : n \in 1..MaxDays }

\* a RainfallDataRow as RainfallEngine.generate emits it
RowsOf(s) == [d \in 1..Len(s) |->
                [synthetic_year |-> 1, day_of_year |-> d, month |-> 1,
                 rain_mm |-> s[d], wet |-> s[d] >= 10]]

\* InflowConfig values the callers build.  The first two have the flat shape
\* of the earlier App (part_002/part_003: roofAreaPerClassroom,
\* numberOfClassrooms); the others the shape of types.ts and App.tsx
\* (buildings: Building[]), the last one a scope filter that kept nothing.
Configs ==
    << [roofAreaPerClassroom |-> 30, numberOfClassrooms |-> 2,
        runoffCoefficient |-> 85, gutterEfficiency |-> 90, firstFlushLoss |-> 50],
       [roofAreaPerClassroom |-> 30, numberOfClassrooms |-> 0,
        runoffCoefficient |-> 85, gutterEfficiency |-> 90, firstFlushLoss |-> 50],
       [buildings |-> << [id |-> "1", numberOfClassrooms |-> 1, roofAreaPerClassroom |-> 40],
                         [id |-> "2", numberOfClassrooms |-> 2, roofAreaPerClassroom |-> 10] >>,
        runoffCoefficient |-> 85, gutterEfficiency |-> 90, firstFlushLoss |-> 50],
       [buildings |-> << >>,
        runoffCoefficient |-> 85, gutterEfficiency |-> 90, firstFlushLoss |-> 50] >>

\* totalDailyDemand values (hundredths of a litre): 0 L, 50 L, 100 L
DemandVals == {0, 5000, 10000}

\* <<minSize, maxSize, steps>> of scanTankSizes, hundredths of a litre; the
\* last is the call of handleRunAnalysis (1000 L .. 50000 L in 25 steps)
ScanArgs == { <<0, 20000, 2>>, <<0, 30000, 3>>, <<10000, 40000, 1>>,
              <<5000, 45000, 4>> }

AppScanArgs == <<100000, 5000000, 25>>

---------------------------------------------------------------------------
(* WaterBalanceEngine.calculateInflow                                      *)

TotalRoofArea(cfg) ==
    JsMul(NumProp(cfg, "roofAreaPerClassroom"), NumProp(cfg, "numberOfClassrooms"))

EffectiveRain(row, cfg) == JsMax(0, JsSub(row.rain_mm, cfg.firstFlushLoss))

\* effectiveRain * totalRoofArea * runoffCoefficient * gutterEfficiency, in
\* (mm/100) * m2 * % * % = millionths of a litre
Inflow(row, cfg) ==
    JsMul(JsMul(JsMul(EffectiveRain(row, cfg), TotalRoofArea(cfg)),
                cfg.runoffCoefficient), cfg.gutterEfficiency)

\* parseFloat(x.toFixed(2)): millionths of a litre rounded to hundredths
ToFixed2(x) == IF x = NaN THEN NaN ELSE (x + 5000) \div 10000

InflowRow(row, cfg) ==
    [synthetic_year |-> row.synthetic_year, day_of_year |-> row.day_of_year,
     month |-> row.month, rain_mm |-> row.rain_mm, wet |-> row.wet,
     inflow_liters |-> ToFixed2(Inflow(row, cfg))]

calculateInflow(rows, cfg) == [d \in 1..Len(rows) |-> InflowRow(rows[d], cfg)]

---------------------------------------------------------------------------
(* WaterBalanceEngine.runSimulation                                        *)

\* slip: the tank starts full
InitialStorage_Full(cap) == cap

\* wbConfig.tankCapacity * 0.5
InitialStorage(cap) == IF cap = NaN THEN NaN ELSE cap \div 2

\* slip: the cap at tankCapacity is missing
StorageAfterInflow_NoCap(cap, st, inflow) == JsAdd(st, inflow)

\* Math.min(wbConfig.tankCapacity, storage + day.inflow_liters)
StorageAfterInflow(cap, st, inflow) == JsMin(cap, JsAdd(st, inflow))

\* slip: the demand is drawn whatever the tank holds
DemandMet_Always(st, demand) == TRUE

\* slip: operands of the comparison swapped (dailyDemand >= storage)
DemandMet_Swapped(st, demand) == JsGe(demand, st)

\* storage >= dailyDemand
DemandMet(st, demand) == JsGe(st, demand)

\* slip: divides by the last index instead of the length
Reliability_LastIndex(met, len) == [num |-> met * 100, den |-> len - 1]

\* (daysMet / inflowData.length) * 100, kept as the exact fraction num/den
Reliability(met, len) == [num |-> met * 100, den |-> len]

---------------------------------------------------------------------------
(* WaterBalanceEngine.scanTankSizes                                        *)

\* (maxSize - minSize) / steps
StepSize(lo, hi, n) == (hi - lo) \div n

\* minSize + (i * stepSize)
CapacityAt(lo, stepSize, k) == lo + (k * stepSize)

\* slip: i < steps, the upper end of the range is not evaluated
ScanContinues_Exclusive(k, n) == k < n

\* loop condition i <= steps
ScanContinues(k, n) == k <= n

---------------------------------------------------------------------------
(* The water-balance run: calculateInflow, then scanTankSizes, which calls *)
(* runSimulation once per capacity.                                        *)

WbInputs ==
    \/ /\ rainData \in { RowsOf(s) : s \in RainSeqs }
       /\ config \in { Configs[c] : c \in 1..Len(Configs) }
       /\ wbConfig \in { [totalDailyDemand |-> d] : d \in DemandVals }
       /\ \E a \in ScanArgs : minSize = a[1] /\ maxSize = a[2] /\ steps = a[3]
    \/ /\ rainData \in { RowsOf(s) : s \in [1..MaxDays -> RainVals \ {30}] }
       /\ config = Configs[1]
       /\ wbConfig = [totalDailyDemand |-> 10000]
       /\ minSize = AppScanArgs[1] /\ maxSize = AppScanArgs[2] /\ steps = AppScanArgs[3]

WbInit ==
    /\ WbInputs
    /\ inflowData = << >>
    /\ results = << >>
    /\ i = 0
    /\ capacity = 0
    /\ storage = 0 /\ daysMet = 0 /\ totalInflow = 0
    /\ totalDemandValue = 0 /\ droughtDays = 0
    /\ day = 0
    /\ afterInflow = 0
    /\ pc = "calculateInflow"

CalculateInflow ==
    /\ pc = "calculateInflow"
    /\ inflowData' = calculateInflow(rainData, config)
    /\ pc' = "scan"
    /\ UNCHANGED << genVars, calVars >>
    /\ UNCHANGED << rainData, config, wbConfig, minSize, maxSize, steps, results, i,
                    capacity, storage, daysMet, totalInflow, totalDemandValue,
                    droughtDays, day, afterInflow >>

\* slip: storage is a field that survives from one scan point to the next
ScanCall_CarryOver ==
    /\ pc = "scan"
    /\ ScanContinues(i, steps)
    /\ capacity' = CapacityAt(minSize, StepSize(minSize, maxSize, steps), i)
    /\ storage' = IF i = 0 THEN InitialStorage(capacity') ELSE storage
    /\ daysMet' = 0 /\ totalInflow' = 0 /\ totalDemandValue' = 0 /\ droughtDays' = 0
    /\ day' = 1
    /\ afterInflow' = storage'
    /\ pc' = "sim"
    /\ UNCHANGED << genVars, calVars >>
    /\ UNCHANGED << rainData, config, wbConfig, minSize, maxSize, steps, inflowData,
                    results, i >>

\* one pass of the for loop up to the call of runSimulation, whose locals
\* are initialised (lines 25-31)
ScanCall ==
    /\ pc = "scan"
    /\ ScanContinues(i, steps)
    /\ capacity' = CapacityAt(minSize, StepSize(minSize, maxSize, steps), i)
    /\ storage' = InitialStorage(capacity')
    /\ daysMet' = 0 /\ totalInflow' = 0 /\ totalDemandValue' = 0 /\ droughtDays' = 0
    /\ day' = 1
    /\ afterInflow' = storage'
    /\ pc' = "sim"
    /\ UNCHANGED << genVars, calVars >>
    /\ UNCHANGED << rainData, config, wbConfig, minSize, maxSize, steps, inflowData,
                    results, i >>

\* one element of inflowData.forEach (lines 33-48)
SimDay ==
    /\ pc = "sim"
    /\ day <= Len(inflowData)
    /\ LET inflow == inflowData[day].inflow_liters
           filled == StorageAfterInflow(capacity, storage, inflow)
       IN  /\ totalInflow' = JsAdd(totalInflow, inflow)
           /\ totalDemandValue' = totalDemandValue + wbConfig.totalDailyDemand
           /\ afterInflow' = filled
           /\ IF DemandMet(filled, wbConfig.totalDailyDemand)
                 THEN /\ storage' = filled - wbConfig.totalDailyDemand
                      /\ daysMet' = daysMet + 1
                      /\ droughtDays' = droughtDays
                 ELSE /\ droughtDays' = droughtDays + 1
                      /\ storage' = 0
                      /\ daysMet' = daysMet
    /\ day' = day + 1
    /\ UNCHANGED << genVars, calVars >>
    /\ UNCHANGED << rainData, config, wbConfig, minSize, maxSize, steps, inflowData,
                    results, i, capacity, pc >>

\* runSimulation returns (lines 50-56); scanTankSizes pushes the result, i++
SimReturn ==
    /\ pc = "sim"
    /\ day > Len(inflowData)
    /\ results' = Append(results,
                         [tankSize |-> capacity,
                          reliability |-> Reliability(daysMet, Len(inflowData)),
                          droughtDays |-> droughtDays,
                          totalInflow |-> totalInflow,
                          totalDemand |-> totalDemandValue])
    /\ i' = i + 1
    /\ pc' = "scan"
    /\ UNCHANGED << genVars, calVars >>
    /\ UNCHANGED << rainData, config, wbConfig, minSize, maxSize, steps, inflowData,
                    capacity, storage, daysMet, totalInflow, totalDemandValue,
                    droughtDays, day, afterInflow >>

\* the for loop ends; scanTankSizes returns results
ScanReturn ==
    /\ pc = "scan"
    /\ ~ScanContinues(i, steps)
    /\ pc' = "done"
    /\ UNCHANGED << genVars, calVars >>
    /\ UNCHANGED << rainData, config, wbConfig, minSize, maxSize, steps, inflowData,
                    results, i, capacity, storage, daysMet, totalInflow,
                    totalDemandValue, droughtDays, day, afterInflow >>

WbNext == CalculateInflow \/ ScanCall \/ SimDay \/ SimReturn \/ ScanReturn

---------------------------------------------------------------------------
(* RainfallEngine: numbers.                                                *)
(*   probabilities (p01, p11, pExit)   1/10000                             *)
(*   depths, gamma shape and scale     1/1000 (of a millimetre for depths) *)
(*   natural logarithms                1/100000 or 1/1000 as named         *)
(*   rain_mm of an emitted row         hundredths of a millimetre          *)
(* The PRNG state is an exact integer, as it is in the double arithmetic   *)
(* of line 128 (state * 16807 < 2^53).  A uniform draw (state - 1) /       *)
(* 2147483646 is carried as its numerator.  Math.log, Math.sqrt, Math.cos  *)
(* and Math.pow are evaluated in fixed point by series.                    *)

\* Math.log(0) / Math.log(1 - safeP), and the quotient 0 / 0
PosInf == 999999999
\* Math.log(0)
NegInf == -999999998

JsLt(a, b) == a # NaN /\ b # NaN /\ a < b

\* seedableRandom, line 128: the modulus and the multiplier
LehmerM == 2147483647
LehmerA == 16807
\* LehmerM = LehmerA * SchrageQ + SchrageR: state * 16807 % 2147483647
\* evaluated without leaving 32 bits
SchrageQ == 127773
SchrageR == 2836
\* line 129: the divisor of the returned uniform
UDen == 2147483646

\* a residue below 0 is brought back into 0..LehmerM-1
SchrageWrap(t) == IF t < 0 THEN t + LehmerM ELSE t

Schrage(s0) ==
    SchrageWrap(LehmerA * (s0 % SchrageQ) - SchrageR * (s0 \div SchrageQ))

MulMod(s) == Schrage(s % LehmerM)

\* line 128; % keeps the sign of the dividend
LehmerNext(s) == IF s >= 0 THEN MulMod(s) ELSE 0 - MulMod(0 - s)

\* line 129: the numerator of the uniform returned for the new state
Uniform(s) == s - 1

\* the state captured by the closure when the call creates its stream
seedableRandom_Shared(sd) == IF call = 2 THEN state ELSE sd

\* line 126
seedableRandom(sd) == sd

RECURSIVE Log2Floor(_)
Log2Floor(n) == IF n < 2 THEN 0 ELSE 1 + Log2Floor(n \div 2)

RECURSIVE Isqrt(_)
Isqrt(n) ==
    IF n < 2 THEN n
    ELSE LET r == 2 * Isqrt(n \div 4)
         IN  IF (r + 1) * (r + 1) <= n THEN r + 1 ELSE r

\* the odd powers t^k / k of the atanh series, k = 1, 3, .., 9
RECURSIVE AtanhTerms(_, _, _)
AtanhTerms(term, t2, k) ==
    IF k > 9 THEN 0
    ELSE term \div k + AtanhTerms((term * t2) \div 100000, t2, k + 2)

AtanhSeries(t) == AtanhTerms(t, (t * t) \div 100000, 1)

\* n scaled into [2^14, 2^15)
Mantissa(e, n) == IF e >= 14 THEN n \div (2 ^ (e - 14)) ELSE n * (2 ^ (14 - e))

\* (m - 1) / (m + 1) in 1/100000 for m = top / 2^14
AtanhArg(top) == ((top - 16384) * 100000) \div (top + 16384)

LnOfExponent(e, n) == e * 69315 + 2 * AtanhSeries(AtanhArg(Mantissa(e, n)))

\* ln n for an integer n >= 1, in 1/100000: n = 2^e * m, ln m by the
\* atanh series
LnInt(n) == LnOfExponent(Log2Floor(n), n)

\* Math.log of a value in 1/1000, result in 1/1000
LnMilli(x) ==
    IF x = NaN \/ x < 0 THEN NaN
    ELSE IF x = 0 THEN NegInf
    ELSE (LnInt(x) - 690776) \div 100

\* Math.log of a probability in 1/10000, result in 1/100000
LnProb(p) ==
    IF p = NaN \/ p < 0 THEN NaN
    ELSE IF p = 0 THEN NegInf
    ELSE LnInt(p) - 921034

\* Math.log of the uniform with numerator n, result in 1/100000
LnUniform5(n) ==
    IF n < 0 THEN NaN
    ELSE IF n = 0 THEN NegInf
    ELSE LnInt(n) - 2148756

\* 1/100000 to 1/1000, the non-finite values kept
LnScale(l) == IF l = NaN \/ l = NegInf THEN l ELSE l \div 100

\* the same in 1/1000
LnUniform(n) == LnScale(LnUniform5(n))

\* random() < t for a threshold t in 1/10000
UniformLt(n, t) ==
    IF t = NaN \/ t = NegInf THEN FALSE
    ELSE IF t = PosInf THEN TRUE
    ELSE IF t <= 0 - 10000 THEN FALSE
    ELSE IF t <= 0 THEN n < t * 214748
    ELSE IF t >= 10000 THEN TRUE
    ELSE n < t * 214748 + (t * 3646 + 9999) \div 10000

\* cos y for y in [0, pi/2] from y^2 and y^4, everything in 1/1000
CosPoly(y2, y4) ==
    1000 - y2 \div 2 + y4 \div 24 - ((y4 * y2) \div 1000) \div 720
         + ((y4 * y4) \div 1000) \div 40320

CosSquared(y2) == CosPoly(y2, (y2 * y2) \div 1000)

\* q in 1/10000 of a turn, at most a quarter turn
CosQuarter(q) == CosSquared((((q * 62832) \div 100000) * ((q * 62832) \div 100000)) \div 1000)

\* h in 1/10000 of a turn, at most half a turn
CosHalf(h) == IF h > 2500 THEN 0 - CosQuarter(5000 - h) ELSE CosQuarter(h)

CosFraction(f) == CosHalf(IF f > 5000 THEN 10000 - f ELSE f)

\* Math.cos(2.0 * Math.PI * v) for the uniform with numerator n, in 1/1000
CosTurn(n) == CosFraction(n \div 214749)

\* Math.sqrt of a value in 1/1000
SqrtMilli(x) == Isqrt(x * 1000)

\* e^r for r in (-0.693, 0] from r and r^2, in 1/1000
ExpPoly(r, r2) ==
    1000 + r + r2 \div 2 + ((r2 * r) \div 1000) \div 6 + ((r2 * r2) \div 1000) \div 24

ExpSeries(r) == ExpPoly(r, (r * r) \div 1000)

\* e^y = e^(y + k ln 2) / 2^k
ExpReduced(y, k) == IF k > 30 THEN 0 ELSE ExpSeries(y + k * 693) \div (2 ^ k)

\* Math.exp of y <= 0 in 1/1000
ExpMilli(y) == ExpReduced(y, (0 - y) \div 693)

---------------------------------------------------------------------------
(* RainfallEngine: calendar                                                *)

IsLeap(y) == y % 4 = 0 /\ (y % 100 # 0 \/ y % 400 = 0)

\* a year whose February is never extended
getDaysInYear_NoLeap(year) == 365

\* lines 139-141
getDaysInYear(year) == IF IsLeap(year) THEN 366 ELSE 365

\* new Date(year, 0): a year in 0..99 is taken as 1900 + year
DateYear(year) == IF year \in 0..99 THEN 1900 + year ELSE year

MonthLengths(leap) ==
    << 31, IF leap THEN 29 ELSE 28, 31, 30, 31, 30, 31, 31, 30, 31, 30, 31 >>

\* setDate(doy) on 1 January, then getMonth() + 1: walk the months; a doy
\* past 31 December lands in the next year's months
RECURSIVE MonthOfDay(_, _, _)
MonthOfDay(doy, y, m) ==
    LET len == MonthLengths(IsLeap(y))[m]
    IN  IF doy <= len THEN m
        ELSE IF m = 12 THEN MonthOfDay(doy - len, y + 1, 1)
        ELSE MonthOfDay(doy - len, y, m + 1)

\* slip: the date is built in a fixed common year
getMonthFromDay_FixedYear(doy, year) == MonthOfDay(doy, 1901, 1)

\* lines 133-137
getMonthFromDay(doy, year) == MonthOfDay(doy, DateYear(year), 1)

---------------------------------------------------------------------------
(* RainfallEngine: samplers.  A sampler takes the PRNG state and returns   *)
(* its value with the state after its draws.                               *)

\* while (u === 0) u = rand(): the state of the first non-zero draw
RECURSIVE DrawNonZero(_)
SkipZero(s1) == IF Uniform(s1) = 0 THEN DrawNonZero(s1) ELSE s1

DrawNonZero(s) == SkipZero(LehmerNext(s))

\* line 119 for the states su, sv that produced u and v
BoxMullerValue(su, sv) ==
    [value |-> (SqrtMilli(2 * (0 - LnUniform(Uniform(su)))) * CosTurn(Uniform(sv)))
                   \div 1000,
     s |-> sv]

BoxMullerV(su) == BoxMullerValue(su, DrawNonZero(su))

\* lines 115-120; reached with a state >= 1 only, whose draws lie in [0, 1)
boxMuller(s) == BoxMullerV(DrawNonZero(s))

\* line 105: u < 1 - 0.0331 * x^4, from x^2
SqueezeX2(u, x2) == UniformLt(u, (1000 - (331 * ((x2 * x2) \div 1000)) \div 10000) * 10)

Squeeze(u, x) == SqueezeX2(u, (x * x) \div 1000)

\* line 108: Math.log(u) < 0.5 * x * x + d * (1 - v + Math.log(v))
RejectionLn(lnu, halfx2, d, v, lnv) ==
    lnv # NegInf /\ JsLt(lnu, halfx2 + (d * (1000 - v + lnv)) \div 1000)

Rejection(u, x, d, v) ==
    RejectionLn(LnUniform(u), ((x * x) \div 1000) \div 2, d, v, LnMilli(v))

\* line 101
Cube(v1) == (((v1 * v1) \div 1000) * v1) \div 1000

\* lines 94-109 for a shape k >= 1: d and c in 1/1000
RECURSIVE MarsagliaTsang(_, _, _, _)

\* lines 102-108: x and v are fixed, s2 is the state after u = rand()
MtAccept(d, c, theta, x, v, s2) ==
    IF Squeeze(Uniform(s2), x) \/ Rejection(Uniform(s2), x, d, v)
    THEN [value |-> (((d * v) \div 1000) * theta) \div 1000, s |-> s2]
    ELSE MarsagliaTsang(d, c, theta, s2)

\* line 99: the do-while draws again while v <= 0
MtCube(d, c, theta, bm, v1) ==
    IF v1 <= 0 THEN MarsagliaTsang(d, c, theta, bm.s)
    ELSE MtAccept(d, c, theta, bm.value, Cube(v1), LehmerNext(bm.s))

\* lines 97-98
MtCandidate(d, c, theta, bm) == MtCube(d, c, theta, bm, 1000 + (c * bm.value) \div 1000)

MarsagliaTsang(d, c, theta, s) == MtCandidate(d, c, theta, boxMuller(s))

\* Math.pow(u, 1 / k)
UniformPow(u, k) == IF u = 0 THEN 0 ELSE ExpMilli((LnUniform(u) * 1000) \div k)

\* line 88: the product, s1 the state after rand()
PowerScale(k, gv, s1) == [value |-> (gv * UniformPow(Uniform(s1), k)) \div 1000, s |-> s1]

PowerTransform(k, g) == PowerScale(k, g.value, LehmerNext(g.s))

\* lines 85-110, k and theta in 1/1000
RECURSIVE sampleGamma(_, _, _)
sampleGamma(k, theta, s) ==
    IF k < 1000
    THEN PowerTransform(k, sampleGamma(1000 + k, theta, s))
    ELSE MarsagliaTsang(k - 333, 1000000 \div SqrtMilli(9 * (k - 333)), theta, s)

\* Math.log(random() || 0.0001)
LnOrFloor(u) == IF u = 0 THEN 0 - 9210 ELSE LnUniform(u)

ScaleDepth(meanRain, ln) == IF ln = NaN THEN NaN ELSE ((0 - meanRain) * ln) \div 1000

ExponentialOf(meanRain, s1) ==
    [value |-> ScaleDepth(meanRain, LnOrFloor(Uniform(s1))), s |-> s1]

\* line 51: -meanRain * Math.log(random() || 0.0001)
Exponential(meanRain, s) == ExponentialOf(meanRain, LehmerNext(s))

\* a && b on two numeric properties: neither undefined, NaN nor 0
Truthy(x) == x # NaN /\ x # 0

\* lines 47-52
WetDepth(p, s) ==
    IF Truthy(NumProp(p, "gamma_k")) /\ Truthy(NumProp(p, "gamma_theta"))
    THEN sampleGamma(p.gamma_k, p.gamma_theta, s)
    ELSE Exponential(p.meanRain, s)

\* the depth is kept as drawn
Threshold_None(rain) == rain

\* line 55
Threshold(rain) == IF JsLt(rain, 100) THEN 0 ELSE rain

\* line 62: parseFloat(rain.toFixed(2)), 1/1000 to 1/100
RainToFixed2(rain) == IF rain = NaN THEN NaN ELSE (rain + 5) \div 10

\* what find returns when no entry matches; reading a property of it throws
\* a TypeError
Undefined == [undefined |-> TRUE]

\* params.find(p => p.month === m)!: the first entry of that month
FindMonth(ps, m) ==
    IF \E j \in 1..Len(ps) : ps[j].month = m
    THEN ps[CHOOSE j \in 1..Len(ps) :
                ps[j].month = m /\ \A h \in 1..(j - 1) : ps[h].month # m]
    ELSE Undefined

\* slip: the draw is compared with January's p01 itself
InitialWetThreshold_P01(jan) == jan.p01

\* line 16: jan.p01 / (1 - jan.p11 + jan.p01), in 1/10000
InitialWetThreshold(jan) ==
    LET den == 10000 - jan.p11 + jan.p01
    IN  IF den = 0 THEN (IF jan.p01 = 0 THEN NaN
                         ELSE IF jan.p01 > 0 THEN PosInf ELSE NegInf)
        ELSE IF den > 0 THEN (jan.p01 * 10000) \div den
        ELSE 0 - ((jan.p01 * 10000) \div (0 - den))

\* line 29
ExitProbability(wet, p) == IF wet THEN 10000 - p.p11 ELSE p.p01

\* line 30
SafeP(pExit) ==
    IF pExit >= 9999 THEN 9999 ELSE IF pExit <= 1 THEN 1 ELSE pExit

\* Math.max(1, Math.ceil(num / den)) for den < 0
CeilRatio(num, den) ==
    IF num = NaN THEN NaN
    ELSE IF num = NegInf THEN PosInf
    ELSE IF ((0 - num) + (0 - den) - 1) \div (0 - den) < 1 THEN 1
    ELSE ((0 - num) + (0 - den) - 1) \div (0 - den)

\* line 31: Math.max(1, Math.ceil(Math.log(u) / Math.log(1 - safeP)))
SpellLength(u, safeP) == CeilRatio(LnUniform5(u), LnProb(10000 - safeP))

\* the spell goes on
PastHorizon_Never(y, n) == FALSE

\* line 35
PastHorizon(y, n) == y > n

\* lines 41-56: the depth kept for the day, with the state after its draws
Thresholded(g) == [value |-> Threshold(g.value), s |-> g.s]

\* slip: a depth is drawn on every day, whatever the state
DayDraw_AlwaysDraw(wet, p, s) == Thresholded(WetDepth(p, s))

DayDraw(wet, p, s) ==
    IF wet THEN Thresholded(WetDepth(p, s)) ELSE [value |-> 0, s |-> s]

\* lines 58-64
Row(y, doy, m, rain) ==
    [synthetic_year |-> y, day_of_year |-> doy, month |-> m,
     rain_mm |-> RainToFixed2(rain), wet |-> JsGe(rain, 100)]

---------------------------------------------------------------------------
(* RainfallEngine.generate: inputs                                         *)

MaxYears == 5

\* parameters as HistoricalAnalysisModule hands them over after calibrating
\* on a record of light rain: the same values for every month, a gamma
\* shape below 1 and a mean depth of 0.3 mm
CALIBRATED_DRIZZLE_PARAMS ==
    [m \in 1..12 |->
        [month |-> m, p01 |-> 3000, p11 |-> 5000, meanRain |-> 300,
         stdDev |-> 350, gamma_k |-> 735, gamma_theta |-> 408]]

DEFAULT_MONTHLY_PARAMS ==
    << [month |-> 1, p01 |-> 1500, p11 |-> 4500, meanRain |-> 5200, stdDev |-> 4100,
        gamma_k |-> 1609, gamma_theta |-> 3232],
       [month |-> 2, p01 |-> 1200, p11 |-> 4000, meanRain |-> 4800, stdDev |-> 3800,
        gamma_k |-> 1595, gamma_theta |-> 3008],
       [month |-> 3, p01 |-> 1800, p11 |-> 5000, meanRain |-> 6500, stdDev |-> 5200,
        gamma_k |-> 1562, gamma_theta |-> 4160],
       [month |-> 4, p01 |-> 2500, p11 |-> 5500, meanRain |-> 8900, stdDev |-> 7100,
        gamma_k |-> 1572, gamma_theta |-> 5664],
       [month |-> 5, p01 |-> 3500, p11 |-> 6500, meanRain |-> 12400, stdDev |-> 9800,
        gamma_k |-> 1601, gamma_theta |-> 7745],
       [month |-> 6, p01 |-> 4500, p11 |-> 7500, meanRain |-> 18200, stdDev |-> 14500,
        gamma_k |-> 1575, gamma_theta |-> 11552],
       [month |-> 7, p01 |-> 5000, p11 |-> 8000, meanRain |-> 22100, stdDev |-> 17800,
        gamma_k |-> 1541, gamma_theta |-> 14337],
       [month |-> 8, p01 |-> 4800, p11 |-> 7800, meanRain |-> 20500, stdDev |-> 16200,
        gamma_k |-> 1601, gamma_theta |-> 12802],
       [month |-> 9, p01 |-> 4000, p11 |-> 7000, meanRain |-> 15300, stdDev |-> 12100,
        gamma_k |-> 1599, gamma_theta |-> 9569],
       [month |-> 10, p01 |-> 3000, p11 |-> 6000, meanRain |-> 10200, stdDev |-> 8400,
        gamma_k |-> 1474, gamma_theta |-> 6918],
       [month |-> 11, p01 |-> 2200, p11 |-> 5200, meanRain |-> 7400, stdDev |-> 5900,
        gamma_k |-> 1573, gamma_theta |-> 4704],
       [month |-> 12, p01 |-> 1800, p11 |-> 4800, meanRain |-> 5800, stdDev |-> 4600,
        gamma_k |-> 1589, gamma_theta |-> 3648] >>

LEGACY_MONTHLY_PARAMS ==
    << [month |-> 1, p01 |-> 1500, p11 |-> 4500, meanRain |-> 5200, stdDev |-> 4100],
       [month |-> 2, p01 |-> 1200, p11 |-> 4000, meanRain |-> 4800, stdDev |-> 3800],
       [month |-> 3, p01 |-> 1800, p11 |-> 5000, meanRain |-> 6500, stdDev |-> 5200],
       [month |-> 4, p01 |-> 2500, p11 |-> 5500, meanRain |-> 8900, stdDev |-> 7100],
       [month |-> 5, p01 |-> 3500, p11 |-> 6500, meanRain |-> 12400, stdDev |-> 9800],
       [month |-> 6, p01 |-> 4500, p11 |-> 7500, meanRain |-> 18200, stdDev |-> 14500],
       [month |-> 7, p01 |-> 5000, p11 |-> 8000, meanRain |-> 22100, stdDev |-> 17800],
       [month |-> 8, p01 |-> 4800, p11 |-> 7800, meanRain |-> 20500, stdDev |-> 16200],
       [month |-> 9, p01 |-> 4000, p11 |-> 7000, meanRain |-> 15300, stdDev |-> 12100],
       [month |-> 10, p01 |-> 3000, p11 |-> 6000, meanRain |-> 10200, stdDev |-> 8400],
       [month |-> 11, p01 |-> 2200, p11 |-> 5200, meanRain |-> 7400, stdDev |-> 5900],
       [month |-> 12, p01 |-> 1800, p11 |-> 4800, meanRain |-> 5800, stdDev |-> 4600] >>

ParamSets ==
    { DEFAULT_MONTHLY_PARAMS, LEGACY_MONTHLY_PARAMS, CALIBRATED_DRIZZLE_PARAMS }

\* genSeed of App.tsx and two other positive seeds
Seeds == { 42, 1, 2026 }

YearVals == (0 - 1)..MaxYears

\* App.tsx: genYears = 10, genSeed = 42, the default parameters
AppYears == 10
AppSeed == 42

\* a MonthlyParameters[] without an entry for month m
WithoutMonth(ps, m) == SelectSeq(ps, LAMBDA p : p.month # m)

\* a calibration in which months 1..3 saw no dry-to-wet transition, so that
\* TransitionAnalyzer emitted p01 = 0 for them
DRY_SEASON_PARAMS ==
    [m \in 1..12 |->
        IF m <= 3 THEN [DEFAULT_MONTHLY_PARAMS[m] EXCEPT !.p01 = 0]
        ELSE DEFAULT_MONTHLY_PARAMS[m]]

\* a calibration on a record whose January days were all wet:
\* TransitionAnalyzer emits p01 = 0 / (0 || 1) = 0 and p11 = n / n = 1
WET_JANUARY_PARAMS ==
    [m \in 1..12 |->
        IF m = 1 THEN [DEFAULT_MONTHLY_PARAMS[m] EXCEPT !.p01 = 0, !.p11 = 10000]
        ELSE DEFAULT_MONTHLY_PARAMS[m]]

\* meanDrySpell, varDrySpell, meanWetSpell, varWetSpell of the twelve
\* months, in tenths of a day
SpellMoments ==
    << << 67, 152, 18, 21 >>, << 83, 245, 16, 19 >>, << 55, 121, 20, 25 >>,
       << 40, 85, 22, 30 >>, << 28, 42, 28, 45 >>, << 22, 31, 40, 102 >>,
       << 20, 25, 50, 154 >>, << 21, 28, 45, 128 >>, << 25, 38, 33, 62 >>,
       << 33, 65, 25, 38 >>, << 45, 102, 21, 28 >>, << 55, 128, 19, 23 >> >>

\* the DEFAULT_MONTHLY_PARAMS that carry the spell moments
SPELL_MOMENT_PARAMS ==
    [m \in 1..12 |->
        [month |-> m,
         p01 |-> DEFAULT_MONTHLY_PARAMS[m].p01, p11 |-> DEFAULT_MONTHLY_PARAMS[m].p11,
         meanRain |-> DEFAULT_MONTHLY_PARAMS[m].meanRain,
         stdDev |-> DEFAULT_MONTHLY_PARAMS[m].stdDev,
         gamma_k |-> DEFAULT_MONTHLY_PARAMS[m].gamma_k,
         gamma_theta |-> DEFAULT_MONTHLY_PARAMS[m].gamma_theta,
         meanDrySpell |-> SpellMoments[m][1], varDrySpell |-> SpellMoments[m][2],
         meanWetSpell |-> SpellMoments[m][3], varWetSpell |-> SpellMoments[m][4]]]

\* arrays the signature of generate admits: incomplete, with an exit
\* probability of 0, or with the optional spell moments
EdgeParamSets ==
    { WithoutMonth(DEFAULT_MONTHLY_PARAMS, 1), WithoutMonth(DEFAULT_MONTHLY_PARAMS, 2),
      WithoutMonth(DEFAULT_MONTHLY_PARAMS, 7), DRY_SEASON_PARAMS, WET_JANUARY_PARAMS,
      SPELL_MOMENT_PARAMS }

\* seeds whose first draw is 0.1565 and 0.7826
MidSeeds == { 20000, 100000 }

\* seeds that put the stream at 0 (0 and the modulus) or at 1 (1407677000,
\* the inverse of 16807)
EdgeSeeds == { 0, LehmerM, 1407677000 }

GenInputs ==
    \/ /\ params \in ParamSets
       /\ seed \in Seeds
       /\ years \in YearVals
    \/ /\ params = DEFAULT_MONTHLY_PARAMS
       /\ seed = AppSeed
       /\ years = AppYears
    \/ /\ params \in EdgeParamSets
       /\ seed \in Seeds
       /\ years = 1
    \/ /\ params = DEFAULT_MONTHLY_PARAMS
       /\ seed \in EdgeSeeds
       /\ years = 1
    \/ /\ params \in ParamSets
       /\ seed \in MidSeeds
       /\ years = 1

---------------------------------------------------------------------------
(* RainfallEngine.generate, called twice in a row with the same arguments  *)

GenInit ==
    /\ GenInputs
    /\ data = << >>
    /\ firstData = << >>
    /\ call = 1
    /\ state = 0
    /\ isWet = FALSE
    /\ currentYear = 0
    /\ currentDayOfYear = 0
    /\ spellLength = 0
    /\ spellI = 0
    /\ gpc = "call"

\* lines 11-19; in line 16 random() is evaluated before jan.p01, which
\* throws when no entry of month 1 was found
GenCall ==
    /\ gpc = "call"
    /\ state' = LehmerNext(seedableRandom(seed))
    /\ data' = << >>
    /\ IF FindMonth(params, 1) = Undefined
          THEN /\ gpc' = "TypeError"
               /\ UNCHANGED << isWet, currentYear, currentDayOfYear >>
          ELSE /\ isWet' = UniformLt(Uniform(state'),
                                     InitialWetThreshold(FindMonth(params, 1)))
               /\ currentYear' = 1
               /\ currentDayOfYear' = 1
               /\ gpc' = "while"
    /\ UNCHANGED << params, years, seed, firstData, call, spellLength, spellI >>
    /\ UNCHANGED << wbVars, calVars >>

\* lines 21-31 and the initialisation of the for loop; line 29 throws when
\* no entry of the month was found
SpellStart ==
    /\ gpc = "while"
    /\ currentYear <= years
    /\ IF FindMonth(params, getMonthFromDay(currentDayOfYear, currentYear)) = Undefined
          THEN /\ gpc' = "TypeError"
               /\ UNCHANGED << state, spellLength, spellI >>
          ELSE /\ state' = LehmerNext(state)
               /\ spellLength' =
                     SpellLength(Uniform(state'),
                                 SafeP(ExitProbability(isWet,
                                     FindMonth(params,
                                         getMonthFromDay(currentDayOfYear, currentYear)))))
               /\ spellI' = 0
               /\ gpc' = "for"
    /\ UNCHANGED << params, years, seed, firstData, call, data, isWet,
                    currentYear, currentDayOfYear >>
    /\ UNCHANGED << wbVars, calVars >>

\* one pass of the for loop, lines 34-72; dayParams is read on a wet day
\* only, where line 47 throws when no entry of the month was found
EmitDay ==
    /\ gpc = "for"
    /\ JsLt(spellI, spellLength)
    /\ ~PastHorizon(currentYear, years)
    /\ IF isWet /\ FindMonth(params, getMonthFromDay(currentDayOfYear, currentYear))
                       = Undefined
          THEN /\ gpc' = "TypeError"
               /\ UNCHANGED << state, data, currentYear, currentDayOfYear, spellI >>
          ELSE /\ LET dayMonth == getMonthFromDay(currentDayOfYear, currentYear)
                      drawn    == DayDraw(isWet, FindMonth(params, dayMonth), state)
                  IN  /\ state' = drawn.s
                      /\ data' = Append(data, Row(currentYear, currentDayOfYear,
                                                  dayMonth, drawn.value))
               /\ IF currentDayOfYear + 1 > getDaysInYear(currentYear)
                     THEN /\ currentDayOfYear' = 1
                          /\ currentYear' = currentYear + 1
                     ELSE /\ currentDayOfYear' = currentDayOfYear + 1
                          /\ currentYear' = currentYear
               /\ spellI' = spellI + 1
               /\ gpc' = gpc
    /\ UNCHANGED << params, years, seed, firstData, call, isWet, spellLength >>
    /\ UNCHANGED << wbVars, calVars >>

\* the for loop ends (its condition, or the break of line 35); line 75
SpellEnd ==
    /\ gpc = "for"
    /\ ~JsLt(spellI, spellLength) \/ PastHorizon(currentYear, years)
    /\ isWet' = ~isWet
    /\ gpc' = "while"
    /\ UNCHANGED << params, years, seed, firstData, call, data, state,
                    currentYear, currentDayOfYear, spellLength, spellI >>
    /\ UNCHANGED << wbVars, calVars >>

\* the while loop ends; line 78
GenReturn ==
    /\ gpc = "while"
    /\ ~(currentYear <= years)
    /\ gpc' = "returned"
    /\ UNCHANGED << params, years, seed, firstData, call, data, state, isWet,
                    currentYear, currentDayOfYear, spellLength, spellI >>
    /\ UNCHANGED << wbVars, calVars >>

\* the caller keeps the first result and calls generate again with the
\* same arguments
SecondCall ==
    /\ gpc = "returned"
    /\ call = 1
    /\ firstData' = data
    /\ call' = 2
    /\ gpc' = "call"
    /\ UNCHANGED << params, years, seed, data, state, isWet,
                    currentYear, currentDayOfYear, spellLength, spellI >>
    /\ UNCHANGED << wbVars, calVars >>

GenNext == GenCall \/ SpellStart \/ EmitDay \/ SpellEnd \/ GenReturn \/ SecondCall

\* the generator is not running
GenIdle ==
    /\ params = << >> /\ years = 0 /\ seed = 0
    /\ data = << >> /\ firstData = << >> /\ call = 0
    /\ state = 0 /\ isWet = FALSE
    /\ currentYear = 0 /\ currentDayOfYear = 0
    /\ spellLength = 0 /\ spellI = 0
    /\ gpc = "idle"

\* the water-balance engine is not running
WbIdle ==
    /\ rainData = << >> /\ config = Configs[1]
    /\ wbConfig = [totalDailyDemand |-> 0]
    /\ minSize = 0 /\ maxSize = 0 /\ steps = 0
    /\ inflowData = << >> /\ results = << >>
    /\ i = 0 /\ capacity = 0
    /\ storage = 0 /\ daysMet = 0 /\ totalInflow = 0
    /\ totalDemandValue = 0 /\ droughtDays = 0
    /\ day = 0 /\ afterInflow = 0
    /\ pc = "idle"

---------------------------------------------------------------------------
(* Calibration: TransitionAnalyzer.analyze and IntensityAnalyzer.analyze,  *)
(* called one after the other on the parsed record by handleFileUpload.    *)
(* A HistoricalRecord is carried as the month its date gives               *)
(* (getMonth() + 1) and its rain_mm in hundredths of a millimetre.         *)
(* Quotients of counters are kept as fractions num/den; the value 1/0 is   *)
(* PosInf.  avgDrySpell, avgWetSpell, meanRain and stdDev are in 1/100,    *)
(* gamma_k and gamma_theta in 1/1000.                                      *)

MaxRecords == 4

CalMonths == {1, 2}

\* 0 mm, exactly 0.1 mm, 0.11 mm and 0.3 mm
CalRains == {0, 10, 11, 30}

\* the header-only file (no record) and every record of 1..MaxRecords days
Histories ==
    UNION { [1..n -> [month : CalMonths, rain_mm : CalRains]] : n \in 0..MaxRecords }

\* lines 18 and 26: rain_mm > 0.1
TaIsWet(rain) == rain > 10

\* part_000 line 90: d.rain_mm > 0.1
IaIsWet_Always(rain) == TRUE

IaIsWet(rain) == rain > 10

\* the pair is filed under the month of its second day
KeyMonth_Next(current, next) == next.month

\* lines 23-24: the month of data[i]
KeyMonth(current, next) == current.month

\* lines 29-35
BumpCount(c, wasWet, isNextWet) ==
    IF ~wasWet
    THEN IF isNextWet THEN [c EXCEPT !.d_to_w = @ + 1] ELSE [c EXCEPT !.d_to_d = @ + 1]
    ELSE IF isNextWet THEN [c EXCEPT !.w_to_w = @ + 1] ELSE [c EXCEPT !.w_to_d = @ + 1]

\* every pair ends a spell
SpellContinues_Never(isNextWet, wasWet) == FALSE

\* line 38
SpellContinues(isNextWet, wasWet) == isNextWet = wasWet

\* slip: the length goes to the list of the state that begins
PushSpell_Swapped(s, wasWet, len) ==
    IF wasWet THEN [s EXCEPT !.dry = Append(@, len)]
    ELSE [s EXCEPT !.wet = Append(@, len)]

\* lines 42-43
PushSpell(s, wasWet, len) ==
    IF wasWet THEN [s EXCEPT !.wet = Append(@, len)]
    ELSE [s EXCEPT !.dry = Append(@, len)]

\* the denominator is used as it is
OrOne_Raw(x) == x

\* x || 1
OrOne(x) == IF x = 0 THEN 1 ELSE x

\* line 59
P01(c) == [num |-> c.d_to_w, den |-> OrOne(c.d_to_w + c.d_to_d)]

\* line 60
P11(c) == [num |-> c.w_to_w, den |-> OrOne(c.w_to_w + c.w_to_d)]

RECURSIVE SumSeq(_)
SumSeq(q) == IF q = << >> THEN 0 ELSE Head(q) + SumSeq(Tail(q))

\* parseFloat((n / d).toFixed(2)) in 1/100, for n >= 0; n / 0 is Infinity
\* for n > 0 and NaN for n = 0
QuotientToFixed2(n, d) ==
    IF d = 0 THEN (IF n = 0 THEN NaN ELSE PosInf)
    ELSE (200 * n + d) \div (2 * d)

\* line 54: the mean of the recorded dry spells, or 1 / p01
AvgDry(s, c) ==
    IF Len(s.dry) > 0 THEN QuotientToFixed2(SumSeq(s.dry), Len(s.dry))
    ELSE QuotientToFixed2(P01(c).den, P01(c).num)

\* line 55: the mean of the recorded wet spells, or 1 / (1 - p11)
AvgWet(s, c) ==
    IF Len(s.wet) > 0 THEN QuotientToFixed2(SumSeq(s.wet), Len(s.wet))
    ELSE QuotientToFixed2(P11(c).den, P11(c).den - P11(c).num)

\* lines 57-63
TransitionRecord(m, c, s) ==
    [month |-> m, p01 |-> P01(c), p11 |-> P11(c),
     avgDrySpell |-> AvgDry(s, c), avgWetSpell |-> AvgWet(s, c)]

RECURSIVE SumSquares(_)
SumSquares(q) == IF q = << >> THEN 0 ELSE Head(q) * Head(q) + SumSquares(Tail(q))

\* n^2 times the population variance of the sample (ss.variance), given its
\* length n, sum sm and sum of squares sq
ScaledVariance(n, sm, sq) == n * sq - sm * sm

\* part_000 lines 98-114 for a sample of n amounts with sum sm and scaled
\* variance sv; k = mean^2 / (variance || 1), theta = variance / (mean || 1)
IntensityOf(m, n, sm, sv) ==
    [month |-> m,
     meanRain |-> (2 * sm + n) \div (2 * n),
     stdDev |-> (2 * Isqrt(sv * 10000) + 100 * n) \div (200 * n),
     gamma_k |-> IF sv = 0 THEN (sm * sm + 5 * n * n) \div (10 * n * n)
                 ELSE (2000 * sm * sm + sv) \div (2 * sv),
     gamma_theta |-> (20 * sv + n * sm) \div (2 * n * sm)]

IntensityRecord(m, amounts) ==
    IntensityOf(m, Len(amounts), SumSeq(amounts),
                ScaledVariance(Len(amounts), SumSeq(amounts), SumSquares(amounts)))

\* the keys of monthData in the order of Object.entries: ascending
RECURSIVE EntriesFrom(_, _)
EntriesFrom(md, m) ==
    IF m > 12 THEN << >>
    ELSE IF m \in DOMAIN md THEN << IntensityRecord(m, md[m]) >> \o EntriesFrom(md, m + 1)
    ELSE EntriesFrom(md, m + 1)

\* part_000 lines 92-94
PushAmount(md, m, rain) ==
    IF m \in DOMAIN md THEN [md EXCEPT ![m] = Append(@, rain)]
    ELSE [k \in DOMAIN md \cup {m} |-> IF k = m THEN << rain >> ELSE md[k]]

CalInit ==
    /\ hist \in Histories
    /\ counts = << >>
    /\ spells = << >>
    /\ currentSpellLength = 0
    /\ isCurrentWet = FALSE
    /\ ci = 0
    /\ transitions = << >>
    /\ monthData = << >>
    /\ intensities = << >>
    /\ merged = << >>
    /\ cpc = "transition"

\* TransitionAnalyzer.analyze, lines 9-18; data[0].rain_mm throws on an
\* empty record
TaStart ==
    /\ cpc = "transition"
    /\ counts' = [m \in 1..12 |-> [d_to_w |-> 0, d_to_d |-> 0, w_to_w |-> 0, w_to_d |-> 0]]
    /\ spells' = [m \in 1..12 |-> [dry |-> << >>, wet |-> << >>]]
    /\ IF hist = << >>
          THEN /\ cpc' = "TypeError"
               /\ UNCHANGED << currentSpellLength, isCurrentWet >>
          ELSE /\ currentSpellLength' = 1
               /\ isCurrentWet' = TaIsWet(hist[1].rain_mm)
               /\ cpc' = "pairs"
    /\ ci' = 0
    /\ UNCHANGED << hist, transitions, monthData, intensities >>
    /\ UNCHANGED << wbVars, genVars, merged >>

\* one pass of the loop, lines 20-48, on data[ci] and data[ci + 1]
TaPair ==
    /\ cpc = "pairs"
    /\ ci < Len(hist) - 1
    /\ counts' = [counts EXCEPT ![KeyMonth(hist[ci + 1], hist[ci + 2])] =
                      BumpCount(@, isCurrentWet, TaIsWet(hist[ci + 2].rain_mm))]
    /\ IF SpellContinues(TaIsWet(hist[ci + 2].rain_mm), isCurrentWet)
          THEN /\ currentSpellLength' = currentSpellLength + 1
               /\ UNCHANGED << spells, isCurrentWet >>
          ELSE /\ spells' = [spells EXCEPT ![KeyMonth(hist[ci + 1], hist[ci + 2])] =
                                PushSpell(@, isCurrentWet, currentSpellLength)]
               /\ currentSpellLength' = 1
               /\ isCurrentWet' = TaIsWet(hist[ci + 2].rain_mm)
    /\ ci' = ci + 1
    /\ UNCHANGED << hist, transitions, monthData, intensities, cpc >>
    /\ UNCHANGED << wbVars, genVars, merged >>

\* the loop ends; lines 50-64
TaEmit ==
    /\ cpc = "pairs"
    /\ ~(ci < Len(hist) - 1)
    /\ transitions' = [m \in 1..12 |-> TransitionRecord(m, counts[m], spells[m])]
    /\ ci' = 0
    /\ cpc' = "intensity"
    /\ UNCHANGED << hist, counts, spells, currentSpellLength, isCurrentWet,
                    monthData, intensities >>
    /\ UNCHANGED << wbVars, genVars, merged >>

\* IntensityAnalyzer.analyze: one element of data.forEach, part_000 lines 89-95
IaDay ==
    /\ cpc = "intensity"
    /\ ci < Len(hist)
    /\ monthData' = IF IaIsWet(hist[ci + 1].rain_mm)
                    THEN PushAmount(monthData, hist[ci + 1].month, hist[ci + 1].rain_mm)
                    ELSE monthData
    /\ ci' = ci + 1
    /\ UNCHANGED << hist, counts, spells, currentSpellLength, isCurrentWet,
                    transitions, intensities, cpc >>
    /\ UNCHANGED << wbVars, genVars, merged >>

\* part_000 lines 97-115
IaEmit ==
    /\ cpc = "intensity"
    /\ ~(ci < Len(hist))
    /\ intensities' = EntriesFrom(monthData, 1)
    /\ cpc' = "analysed"
    /\ UNCHANGED << hist, counts, spells, currentSpellLength, isCurrentWet, ci,
                    transitions, monthData >>
    /\ UNCHANGED << wbVars, genVars, merged >>

\* what the spread { ...t, ...intensity } builds; spreading undefined adds
\* nothing
MergeRecord(t, x) ==
    IF x = Undefined THEN t
    ELSE [f \in DOMAIN t \cup DOMAIN x |-> IF f \in DOMAIN x THEN x[f] ELSE t[f]]

\* HistoricalAnalysisModule.handleFileUpload, lines 38-44: the merge handed
\* to onParametersExtracted
Merge ==
    /\ cpc = "analysed"
    /\ merged' = [m \in 1..Len(transitions) |->
                    MergeRecord(transitions[m],
                                FindMonth(intensities, transitions[m].month))]
    /\ cpc' = "merged"
    /\ UNCHANGED << hist, counts, spells, currentSpellLength, isCurrentWet, ci,
                    transitions, monthData, intensities >>
    /\ UNCHANGED << wbVars, genVars >>

CalNext == TaStart \/ TaPair \/ TaEmit \/ IaDay \/ IaEmit \/ Merge

\* no calibration is running
CalIdle ==
    /\ hist = << >> /\ counts = << >> /\ spells = << >>
    /\ currentSpellLength = 0 /\ isCurrentWet = FALSE /\ ci = 0
    /\ transitions = << >> /\ monthData = << >> /\ intensities = << >>
    /\ merged = << >>
    /\ cpc = "idle"

---------------------------------------------------------------------------
(* Properties of the water-balance engine                                  *)

\* fractions num/den with den > 0
RatLe(a, b) == a.num * b.den <= b.num * a.den
RatLt(a, b) == a.num * b.den < b.num * a.den

Demand == wbConfig.totalDailyDemand

\* C1  Reliability monotonicity: over one inflow series and one demand, a
\* result for a capacity c1 <= c2 never has the larger reliability, although
\* storage starts at half the capacity and is reset to 0 on a drought day;
\* so the reliabilities of a scan are non-decreasing along its results.
C1_ReliabilityMonotone ==
    /\ \A a, b \in 1..Len(results) :
          results[a].tankSize <= results[b].tankSize
             => RatLe(results[a].reliability, results[b].reliability)
    /\ \A a \in 1..Len(results) :
          \* the call in progress is already at least as far as every smaller tank was
          (pc = "sim" /\ day > Len(inflowData) /\ results[a].tankSize <= capacity)
             => results[a].reliability.num <= daysMet * 100

\* a scan whose reliability strictly grows with capacity while even the
\* larger tank went through a drought reset
C1_Witness ==
    /\ pc = "done"
    /\ \E a, b \in 1..Len(results) :
          /\ results[a].tankSize < results[b].tankSize
          /\ RatLt(results[a].reliability, results[b].reliability)
          /\ results[a].reliability.num > 0
          /\ results[b].droughtDays > 0

\* C2  Reliability bounds and day partition: every day of a run is counted
\* exactly once, as met or as drought, so daysMet + droughtDays is the number
\* of days, and 0 <= reliability <= 100.
C2_BoundsAndPartition ==
    /\ pc = "sim" => daysMet + droughtDays = day - 1
    /\ \A a \in 1..Len(results) :
          LET r == results[a] IN
          /\ r.reliability.den = Len(inflowData)
          /\ r.reliability.num + 100 * r.droughtDays = 100 * Len(inflowData)
          /\ RatLe([num |-> 0, den |-> 1], r.reliability)
          /\ RatLe(r.reliability, [num |-> 100, den |-> 1])

\* a finished run that had met days and drought days
C2_Witness ==
    \E a \in 1..Len(results) :
        results[a].droughtDays > 0 /\ results[a].reliability.num > 0

\* C8  Tank-size scan: with minSize < maxSize and steps >= 1 the scan returns
\* steps+1 results in order, the k-th (from 0) with tankSize
\* minSize + k*(maxSize-minSize)/steps: first minSize, last maxSize, strictly
\* increasing, evenly spaced; 26 results 1960 L apart for 1000..50000 in 25.
C8_ScanTankSizes ==
    (pc = "done" /\ minSize < maxSize /\ steps >= 1) =>
        /\ Len(results) = steps + 1
        /\ \A k \in 0..steps :
              results[k + 1].tankSize * steps = minSize * steps + k * (maxSize - minSize)
        /\ results[1].tankSize = minSize
        /\ results[Len(results)].tankSize = maxSize
        /\ \A k \in 1..(Len(results) - 1) :
              /\ results[k].tankSize < results[k + 1].tankSize
              /\ results[k + 1].tankSize - results[k].tankSize
                    = results[2].tankSize - results[1].tankSize
        /\ (<< minSize, maxSize, steps >> = AppScanArgs) =>
              /\ Len(results) = 26
              /\ results[2].tankSize - results[1].tankSize = 196000

\* the scan of handleRunAnalysis has returned
C8_Witness ==
    /\ pc = "done"
    /\ << minSize, maxSize, steps >> = AppScanArgs
    /\ Len(results) = 26

\* C9  Zero capacity: with tankCapacity = 0 and dailyDemand > 0 storage is 0
\* after every day, every day is a drought day, reliability is 0 and
\* droughtDays is the number of days.
C9_ZeroCapacity ==
    /\ (pc = "sim" /\ capacity = 0 /\ Demand > 0) =>
          /\ storage = 0
          /\ afterInflow \in {0, NaN}
          /\ daysMet = 0
          /\ droughtDays = day - 1
    /\ \A a \in 1..Len(results) :
          (results[a].tankSize = 0 /\ Demand > 0) =>
              /\ results[a].reliability.num = 0
              /\ results[a].droughtDays = Len(inflowData)

\* a zero-capacity run over a series in which one day's inflow alone
\* exceeds the demand
C9_Witness ==
    /\ Demand > 0
    /\ \E a \in 1..Len(results) : results[a].tankSize = 0
    /\ \E d \in 1..Len(inflowData) :
          inflowData[d].inflow_liters # NaN /\ inflowData[d].inflow_liters > Demand

\* storage + inflow capped at the capacity, as the claim words it; an inflow
\* that is not a number leaves no number to compare
ClaimedFill(cap, st, inflow) ==
    IF inflow = NaN THEN NaN
    ELSE IF st + inflow < cap THEN st + inflow ELSE cap

\* C20 Storage trajectory: runSimulation starts with storage = 0.5 *
\* tankCapacity; each day, in order, storage becomes min(tankCapacity,
\* storage + inflow_liters); then, if storage >= dailyDemand, the demand is
\* subtracted and the day counted as met, otherwise the day is a drought day
\* and storage is set to 0.  Storage equal to the demand is met.
C20_StorageTrajectory ==
    [][ /\ (pc = "scan" /\ pc' = "sim") =>
              /\ 2 * storage' = capacity'
              /\ day' = 1 /\ daysMet' = 0 /\ droughtDays' = 0
        /\ (pc = "sim" /\ day' = day + 1) =>
              /\ afterInflow' = ClaimedFill(capacity, storage, inflowData[day].inflow_liters)
              /\ IF afterInflow' # NaN /\ afterInflow' >= Demand
                    THEN /\ storage' = afterInflow' - Demand
                         /\ daysMet' = daysMet + 1
                         /\ droughtDays' = droughtDays
                    ELSE /\ storage' = 0
                         /\ droughtDays' = droughtDays + 1
                         /\ daysMet' = daysMet ]_vars

\* day 1 without inflow leaves exactly the demand in a tank of twice the
\* demand and is met; day 2 brings less than the demand, is a drought day
\* and the water is gone
C20_Witness ==
    /\ pc = "sim" /\ day = 3
    /\ Demand > 0 /\ capacity = 2 * Demand
    /\ inflowData[1].inflow_liters = 0
    /\ daysMet = 1 /\ droughtDays = 1
    /\ afterInflow # NaN /\ afterInflow > 0 /\ afterInflow < Demand
    /\ storage = 0

\* runSimulation on its own, as a fold over the inflow series: from day d
\* with storage st and the counters met, dr, tot
RECURSIVE Standalone(_, _, _, _, _, _)
StandaloneDay(cap, d, met, dr, tot, f) ==
    IF f # NaN /\ f >= Demand
    THEN Standalone(cap, d + 1, f - Demand, met + 1, dr, tot)
    ELSE Standalone(cap, d + 1, 0, met, dr + 1, tot)

Standalone(cap, d, st, met, dr, tot) ==
    IF d > Len(inflowData)
    THEN [tankSize |-> cap,
          reliability |-> [num |-> met * 100, den |-> Len(inflowData)],
          droughtDays |-> dr,
          totalInflow |-> tot,
          totalDemand |-> Len(inflowData) * Demand]
    ELSE StandaloneDay(cap, d, met, dr,
                       IF tot = NaN \/ inflowData[d].inflow_liters = NaN
                       THEN NaN ELSE tot + inflowData[d].inflow_liters,
                       ClaimedFill(cap, st, inflowData[d].inflow_liters))

StandaloneResult(cap) == Standalone(cap, 1, cap \div 2, 0, 0, 0)

\* C21 Water-balance purity and scan independence: calculateInflow,
\* runSimulation and scanTankSizes leave the arrays and configuration objects
\* they receive unchanged, and the i-th result of scanTankSizes equals the
\* result of a standalone runSimulation on the same inflow series with
\* tankCapacity = min + i*step: nothing carries over between scan points.
C21_ScanIndependence ==
    /\ [](\A k \in 1..Len(results) :
            results[k] = StandaloneResult(minSize + (k - 1) * ((maxSize - minSize) \div steps)))
    /\ [][ /\ rainData' = rainData /\ config' = config /\ wbConfig' = wbConfig
           /\ << minSize', maxSize', steps' >> = << minSize, maxSize, steps >>
           /\ pc # "calculateInflow" => inflowData' = inflowData ]_vars

\* a finished scan in which a tank that ended a run empty after a drought
\* day is followed by a larger tank that met more days
C21_Witness ==
    /\ pc = "done"
    /\ \E k \in 1..(Len(results) - 1) :
          /\ results[k].droughtDays > 0
          /\ results[k + 1].droughtDays < results[k].droughtDays
          /\ results[k + 1].reliability.num > 0

\* every inflow of the series is a number (and then non-negative, C7)
InflowsAreNumbers ==
    \A d \in 1..Len(inflowData) :
        inflowData[d].inflow_liters # NaN /\ inflowData[d].inflow_liters >= 0

\* C28 Storage invariant: in runSimulation with tankCapacity >= 0,
\* dailyDemand >= 0 and non-negative inflows, the storage after the inflow
\* step and after the demand step of every day is within
\* 0 .. tankCapacity, and right after a drought day it is exactly 0.
C28_StorageInvariant ==
    /\ []((pc = "sim" /\ capacity >= 0 /\ Demand >= 0 /\ InflowsAreNumbers) =>
             /\ 0 <= afterInflow /\ afterInflow <= capacity
             /\ 0 <= storage /\ storage <= capacity)
    /\ [][ (pc = "sim" /\ droughtDays' = droughtDays + 1) => storage' = 0 ]_vars

\* a day whose inflow alone exceeds the tank: filled to the brim, then the
\* demand drawn
C28_Witness ==
    /\ pc = "sim" /\ day > 1
    /\ capacity > 0 /\ Demand > 0
    /\ InflowsAreNumbers
    /\ inflowData[day - 1].inflow_liters > capacity
    /\ afterInflow = capacity
    /\ storage = capacity - Demand

RECURSIVE SumAreas(_)
SumAreas(bs) ==
    IF bs = << >> THEN 0
    ELSE Head(bs).numberOfClassrooms * Head(bs).roofAreaPerClassroom + SumAreas(Tail(bs))

\* the catchment area the claim speaks of: the sum over the buildings of the
\* InflowConfig (for a config of the flat shape, its single unit)
ClaimedArea(cfg) ==
    IF "buildings" \in DOMAIN cfg THEN SumAreas(cfg.buildings)
    ELSE cfg.roofAreaPerClassroom * cfg.numberOfClassrooms

ClaimedInflow(row, cfg) ==
    ToFixed2((IF row.rain_mm > cfg.firstFlushLoss THEN row.rain_mm - cfg.firstFlushLoss ELSE 0)
             * ClaimedArea(cfg) * cfg.runoffCoefficient * cfg.gutterEfficiency)

\* C7  Non-negativity of inflow: every row returned by calculateInflow has
\* inflow_liters >= 0, for rain_mm >= 0, a non-negative catchment area,
\* coefficients in [0,1] and firstFlushLoss >= 0.
C7_InflowNonNegative ==
    \A d \in 1..Len(inflowData) : JsGe(inflowData[d].inflow_liters, 0)

\* C10 Inflow formula: inflow_liters = max(0, rain_mm - firstFlushLoss) *
\* totalCatchmentArea * runoffCoefficient * gutterEfficiency with
\* totalCatchmentArea summed over every building of the InflowConfig passed
\* in (0 for no building), the other fields of the row passed through.
C10_InflowFormula ==
    \A d \in 1..Len(inflowData) :
        /\ inflowData[d].inflow_liters = ClaimedInflow(rainData[d], config)
        /\ \A f \in DOMAIN rainData[d] : inflowData[d][f] = rainData[d][f]

---------------------------------------------------------------------------
(* Properties of RainfallEngine.generate                                   *)

\* C3  Determinism of generation: two calls of generate with the same
\* parameters, years and seed return identical row sequences; nothing but
\* the PRNG stream created inside the call carries state.  While the second
\* call runs, each row it pushes equals the first call's row at that index;
\* when it returns, the two sequences are equal.
C3_Deterministic ==
    /\ (call = 2 /\ gpc \in {"while", "for", "returned"} /\ data # << >>) =>
          /\ Len(data) <= Len(firstData)
          /\ data[Len(data)] = firstData[Len(data)]
    /\ (call = 2 /\ gpc = "returned") => data = firstData

\* a second call that returned more than a year of rows, wet and dry
C3_Witness ==
    /\ call = 2 /\ gpc = "returned"
    /\ Len(data) > 365
    /\ \E a \in 1..Len(data) : data[a].wet /\ data[a].rain_mm > 0
    /\ \E a \in 1..Len(data) : ~data[a].wet

\* L(y) as the claims state it
ClaimedYearLength(y) ==
    IF y % 4 = 0 /\ (y % 100 # 0 \/ y % 400 = 0) THEN 366 ELSE 365

\* row b is the day after row a
NextDay(a, b) ==
    IF a.day_of_year < ClaimedYearLength(a.synthetic_year)
    THEN b.synthetic_year = a.synthetic_year /\ b.day_of_year = a.day_of_year + 1
    ELSE /\ a.day_of_year = ClaimedYearLength(a.synthetic_year)
         /\ b.synthetic_year = a.synthetic_year + 1
         /\ b.day_of_year = 1

\* C4  Calendar integrity: consecutive rows advance the clock by exactly one
\* day; within year y day_of_year runs 1..L(y), the row after (y, L(y)) is
\* (y+1, 1), with L(y) = 366 exactly for y divisible by 4 and (not by 100 or
\* by 400).  Checked on the row just pushed in every state and on the whole
\* series when generate returns.
C4_CalendarIntegrity ==
    /\ Len(data) >= 1 =>
          /\ data[1].day_of_year = 1
          /\ data[Len(data)].day_of_year \in
                 1..ClaimedYearLength(data[Len(data)].synthetic_year)
    /\ Len(data) >= 2 => NextDay(data[Len(data) - 1], data[Len(data)])
    /\ gpc = "returned" =>
          \A a \in 1..(Len(data) - 1) : NextDay(data[a], data[a + 1])

\* the last day of leap year 4 has just been pushed in the middle of a
\* spell that goes on into year 5
C4_Witness ==
    /\ gpc = "for"
    /\ spellI > 0 /\ JsLt(spellI, spellLength)
    /\ currentYear = 5 /\ currentDayOfYear = 1 /\ currentYear <= years
    /\ data[Len(data)].synthetic_year = 4
    /\ data[Len(data)].day_of_year = 366

RECURSIVE SumYearLengths(_)
SumYearLengths(n) ==
    IF n <= 0 THEN 0 ELSE ClaimedYearLength(n) + SumYearLengths(n - 1)

\* C5  Series length and year budget: generate(params, N, seed) returns
\* exactly the sum over y = 1..N of L(y) rows (3652 for N = 10), the first
\* row is (1, 1), every row has 1 <= synthetic_year <= N, no row of year
\* N + 1 is emitted, and for N <= 0 the result is empty.
C5_SeriesLength ==
    /\ Len(data) >= 1 =>
          /\ data[1].synthetic_year = 1 /\ data[1].day_of_year = 1
          /\ data[Len(data)].synthetic_year \in 1..years
    /\ gpc = "returned" =>
          /\ Len(data) = SumYearLengths(years)
          /\ years = 10 => Len(data) = 3652
          /\ years <= 0 => data = << >>
          /\ \A a \in 1..Len(data) : data[a].synthetic_year \in 1..years

\* the ten-year run of the application has returned, its last spell cut
\* short by the end of year 10
C5_Witness ==
    /\ gpc = "returned"
    /\ years = 10
    /\ Len(data) = 3652
    /\ JsLt(spellI, spellLength)
    /\ data[Len(data)].synthetic_year = 10 /\ data[Len(data)].day_of_year = 365

\* C6  Wet/dry consistency: for every emitted row, wet is true exactly when
\* the stored two-decimal rain_mm is >= 0.1.
C6_WetConsistency ==
    /\ Len(data) >= 1 =>
          (data[Len(data)].wet <=> JsGe(data[Len(data)].rain_mm, 10))
    /\ gpc = "returned" =>
          \A a \in 1..Len(data) : data[a].wet <=> JsGe(data[a].rain_mm, 10)

\* in a wet spell, a day whose drawn depth fell below the threshold right
\* after a day that kept its depth
C6_Witness ==
    /\ gpc = "for" /\ isWet /\ spellI >= 2
    /\ ~data[Len(data)].wet /\ data[Len(data)].rain_mm = 0
    /\ data[Len(data) - 1].wet /\ data[Len(data) - 1].rain_mm >= 10

\* C7, the rows of generate: every emitted row has rain_mm >= 0
C7_RainNonNegative ==
    /\ Len(data) >= 1 => JsGe(data[Len(data)].rain_mm, 0)
    /\ gpc = "returned" => \A a \in 1..Len(data) : JsGe(data[a].rain_mm, 0)

\* C11 Spell-length clamp: every spell length sampled in the main loop of
\* generate is an integer in [1, 365], for every parameter set and draw.
C11_SpellClamp ==
    gpc = "for" => spellLength \in 1..365

\* C12 PRNG range: for every integer seed, every value returned by the
\* seeded generator lies strictly between 0 and 1 and the internal state
\* never becomes 0.  Stated on the state left by the last draw of each step.
C12_PrngRange ==
    gpc \in {"while", "for", "returned", "TypeError"} =>
        /\ state # 0
        /\ Uniform(state) > 0
        /\ Uniform(state) < UDen

\* the parameters of the month of the current (possibly rolled-over) day
CurrentMonthParams ==
    FindMonth(params, getMonthFromDay(currentDayOfYear, currentYear))

\* C13 Generalized state transition: when a spell ends, the next state is
\* picked with one fresh uniform draw against the month of the current
\* day: Wet with probability p11 after a wet spell, p01 after a dry one.
C13_GeneralizedTransition ==
    [][(gpc = "for" /\ gpc' = "while" /\ CurrentMonthParams # Undefined) =>
          /\ state' = LehmerNext(state)
          /\ isWet' = UniformLt(Uniform(state'),
                                IF isWet THEN CurrentMonthParams.p11
                                ELSE CurrentMonthParams.p01)]_vars

\* some calendar month has no record in the parameter set
Incomplete(ps) == \E m \in 1..12 : FindMonth(ps, m) = Undefined

\* C14 Incomplete calibration is rejected: given a parameter set that lacks
\* a month, generate fails with an explicit incomplete-calibration error at
\* a precondition check, before any row is produced, and never reaches its
\* loops or a lookup of the missing month.
C14_IncompleteRejected ==
    Incomplete(params) =>
        /\ gpc \in {"call", "IncompleteCalibrationError"}
        /\ data = << >>

\* n / UDen < p / d for the numerator n of a draw and 0 <= p <= d, d > 0,
\* by long division of UDen by d
DrawBelowRatio(n, p, d) ==
    IF n - p * (UDen \div d) < 0 THEN TRUE
    ELSE IF n - p * (UDen \div d) >= p THEN FALSE
    ELSE (n - p * (UDen \div d)) * d < p * (UDen % d)

\* the first draw is below p01 / (1 - p11 + p01); nothing is below 0/0
ClaimedInitialWet(n, jan) ==
    IF 10000 - jan.p11 + jan.p01 = 0 THEN FALSE
    ELSE DrawBelowRatio(n, jan.p01, 10000 - jan.p11 + jan.p01)

\* C22 Initial state: the first uniform draw U of generate decides the
\* initial state from the parameters of month 1: Wet exactly when
\* U < p01 / (1 - p11 + p01), Dry otherwise; the degenerate p01 = 0,
\* p11 = 1 does not raise.
C22_InitialState ==
    [][ (gpc = "call" /\ FindMonth(params, 1) # Undefined) =>
            /\ gpc' = "while"
            /\ state' = LehmerNext(seed)
            /\ isWet' = ClaimedInitialWet(Uniform(state'), FindMonth(params, 1)) ]_vars

\* the first call has decided the initial state for a January with p01 = 0
\* and p11 = 1: Dry, and the loop is entered
C22_Witness ==
    /\ gpc = "while" /\ call = 1 /\ spellLength = 0
    /\ FindMonth(params, 1).p01 = 0 /\ FindMonth(params, 1).p11 = 10000
    /\ ~isWet
    /\ currentYear = 1 /\ currentDayOfYear = 1

\* the spell mean (tenths of a day) the sampler is to use in state wet:
\* NaN when the parameters of the month carry none
ClaimedSpellMean(wet, p) ==
    IF wet THEN NumProp(p, "meanWetSpell") ELSE NumProp(p, "meanDrySpell")

ClaimedSpellVar(wet, p) ==
    IF wet THEN NumProp(p, "varWetSpell") ELSE NumProp(p, "varDrySpell")

\* p = 1 / max(1, mean) in 1/10000; without a mean, mean = 1/(1 - p11) or
\* 1/p01, so that p is the exit probability itself
ClaimedSuccess(wet, p) ==
    IF ClaimedSpellMean(wet, p) = NaN THEN ExitProbability(wet, p)
    ELSE IF ClaimedSpellMean(wet, p) <= 10 THEN 10000
    ELSE 100000 \div ClaimedSpellMean(wet, p)

ClaimedClamp(p) == IF p < 1 THEN 1 ELSE IF p > 9999 THEN 9999 ELSE p

\* C23 Sojourn sampler selection: at the start of a spell, with the mean
\* and variance of the spell-start month's spell moments when present (else
\* the mean 1/(1-p11) or 1/p01): if variance > mean the length is a
\* Negative Binomial draw (a Gamma-mixed Poisson count plus 1, which takes
\* more than one uniform draw); otherwise it is
\* ceil(ln U / ln(1 - p)) with p = 1/max(1, mean) clamped to
\* [0.0001, 0.9999].  Spell moments present in the parameters are used.
C23_SojournSampler ==
    [][ (gpc = "while" /\ gpc' = "for") =>
            IF ClaimedSpellVar(isWet, CurrentMonthParams) # NaN
               /\ ClaimedSpellVar(isWet, CurrentMonthParams)
                     > ClaimedSpellMean(isWet, CurrentMonthParams)
            THEN state' # LehmerNext(state)
            ELSE /\ state' = LehmerNext(state)
                 /\ spellLength' =
                       SpellLength(Uniform(state'),
                                   ClaimedClamp(ClaimedSuccess(isWet, CurrentMonthParams))) ]_vars

\* the last day of month m in a year of len days
MonthEnd(m, len) ==
    << 31, 59, 90, 120, 151, 181, 212, 243, 273, 304, 334, 365 >>[m]
        + (IF m >= 2 THEN len - 365 ELSE 0)

\* the calendar month of day doy in a year of len days
ClaimedMonth(doy, len) ==
    CHOOSE m \in 1..12 :
        doy <= MonthEnd(m, len) /\ (m = 1 \/ doy > MonthEnd(m - 1, len))

ClaimedMonthOfRow(r) == ClaimedMonth(r.day_of_year, ClaimedYearLength(r.synthetic_year))

\* the row just pushed carries its calendar month
LastRowMonth ==
    Len(data) >= 1 =>
        /\ data[Len(data)].month = ClaimedMonthOfRow(data[Len(data)])
        /\ data[Len(data)].day_of_year = 1 => data[Len(data)].month = 1
        /\ data[Len(data)].day_of_year = ClaimedYearLength(data[Len(data)].synthetic_year)
              => data[Len(data)].month = 12
        /\ (Len(data) >= 2
             /\ data[Len(data) - 1].synthetic_year = data[Len(data)].synthetic_year)
              => data[Len(data) - 1].month <= data[Len(data)].month

\* C24 Non-stationary month lookup: each emitted row's month is the
\* calendar month of its day_of_year within its synthetic year (1 at day 1,
\* 12 at the year's last day, non-decreasing within a year); a wet day's
\* depth is drawn with the intensity parameters of the row's own month even
\* when the spell began in an earlier month; the spell's length is sampled
\* once, from the parameters of the month in which the spell starts.
C24_MonthLookup ==
    /\ []LastRowMonth
    /\ [][ /\ (gpc = "for" /\ Len(data') = Len(data) + 1) =>
                /\ spellLength' = spellLength
                /\ isWet =>
                      data'[Len(data')].rain_mm =
                          RainToFixed2(Threshold(
                              WetDepth(FindMonth(params,
                                                 ClaimedMonthOfRow(data'[Len(data')])),
                                       state).value))
           /\ (gpc = "while" /\ gpc' = "for") =>
                spellLength' =
                    SpellLength(Uniform(LehmerNext(state)),
                        SafeP(ExitProbability(isWet,
                            FindMonth(params,
                                ClaimedMonth(currentDayOfYear,
                                             ClaimedYearLength(currentYear)))))) ]_vars

\* a wet spell that began in one month has just pushed a rainy day of the
\* next month
C24_Witness ==
    /\ gpc = "for" /\ isWet /\ spellI >= 2
    /\ data[Len(data)].month = data[Len(data) - 1].month + 1
    /\ data[Len(data)].wet /\ data[Len(data) - 1].wet
    /\ FindMonth(params, data[Len(data)].month).meanRain
          # FindMonth(params, data[Len(data) - 1].month).meanRain

\* a stored depth (hundredths of a millimetre) is 0 or at least 0.1 mm
SignificantOrZero(r) == r.rain_mm = 0 \/ (r.rain_mm # NaN /\ r.rain_mm >= 10)

\* C25 Significance threshold on depth: a row emitted during a Dry spell has
\* rain_mm = 0 and wet = false and takes no uniform draw; a row emitted
\* during a Wet spell has rain_mm exactly 0 (and is flagged not wet) or
\* rain_mm >= 0.1; no emitted row has 0 < rain_mm < 0.1.
C25_SignificanceThreshold ==
    /\ [](/\ Len(data) >= 1 => SignificantOrZero(data[Len(data)])
          /\ gpc = "returned" => \A a \in 1..Len(data) : SignificantOrZero(data[a]))
    /\ [][ (gpc = "for" /\ Len(data') = Len(data) + 1) =>
              IF isWet
              THEN \/ /\ data'[Len(data')].rain_mm = 0
                      /\ ~data'[Len(data')].wet
                   \/ /\ data'[Len(data')].rain_mm # NaN
                      /\ data'[Len(data')].rain_mm >= 10
              ELSE /\ data'[Len(data')].rain_mm = 0
                   /\ ~data'[Len(data')].wet
                   /\ state' = state ]_vars

\* the first day of a wet spell drew less than 0.1 mm and is stored as a
\* dry row, right after the last day of a dry spell
C25_Witness ==
    /\ gpc = "for" /\ isWet /\ spellI = 1 /\ Len(data) >= 2
    /\ data[Len(data)].rain_mm = 0 /\ ~data[Len(data)].wet
    /\ data[Len(data) - 1].rain_mm = 0

\* C30 Main-loop progress and termination for any seed: for a complete
\* parameter set, years >= 0 and every integer seed, each iteration of the
\* outer while loop of generate emits at least one row and so advances the
\* clock by at least a day; the loop ends and generate returns.
C30_LoopProgress ==
    [][ (gpc = "for" /\ gpc' = "while" /\ ~Incomplete(params)) =>
            /\ spellI >= 1
            /\ Len(data) >= spellI ]_vars

---------------------------------------------------------------------------
(* Properties of the calibration                                           *)

\* the analyzers have run their loops over the whole record
TransitionsEmitted == cpc \in {"intensity", "analysed"}

\* the fraction f is the quotient n / d
FracIs(f, n, d) == f.den > 0 /\ f.num * d = n * f.den

\* C15 Transition probabilities: for a non-empty record, analyze emits one
\* record for each month 1..12 with p01 = dryToWet / (dryToWet + dryToDry)
\* and p11 = wetToWet / (wetToWet + wetToDry) from that month's counters,
\* the denominator replaced by 1 when both are zero; both lie in [0, 1].
C15_TransitionProbabilities ==
    TransitionsEmitted =>
        /\ Len(transitions) = 12
        /\ \A m \in 1..12 :
              LET c == counts[m]
                  t == transitions[m]
              IN  /\ t.month = m
                  /\ FracIs(t.p01, c.d_to_w,
                            IF c.d_to_w + c.d_to_d = 0 THEN 1 ELSE c.d_to_w + c.d_to_d)
                  /\ FracIs(t.p11, c.w_to_w,
                            IF c.w_to_w + c.w_to_d = 0 THEN 1 ELSE c.w_to_w + c.w_to_d)
                  /\ 0 <= t.p01.num /\ t.p01.num <= t.p01.den
                  /\ 0 <= t.p11.num /\ t.p11.num <= t.p11.den

\* a month with a proper fraction for p01 next to a month with no pair
C15_Witness ==
    /\ cpc = "analysed"
    /\ \E m \in 1..12 : 0 < transitions[m].p01.num
                         /\ transitions[m].p01.num < transitions[m].p01.den
    /\ \E m \in 1..12 :
          /\ counts[m] = [d_to_w |-> 0, d_to_d |-> 0, w_to_w |-> 0, w_to_d |-> 0]
          /\ transitions[m].p01 = [num |-> 0, den |-> 1]
          /\ transitions[m].p11 = [num |-> 0, den |-> 1]

\* C16 Spell-mean fallback is guarded: for every record and every month the
\* emitted avgDrySpell and avgWetSpell are finite numbers, also when the
\* fallback 1/p01 or 1/(1-p11) is taken with p01 = 0 or p11 = 1.
C16_SpellMeansFinite ==
    TransitionsEmitted =>
        \A m \in 1..12 :
            /\ transitions[m].avgDrySpell \notin {PosInf, NegInf, NaN}
            /\ transitions[m].avgWetSpell \notin {PosInf, NegInf, NaN}

\* day k of the record (1-based) is wet for the analyzer
Wet(k) == hist[k].rain_mm > 10

\* the pairs (k, k+1), k <= upto, of month m with states (a, b)
PairCount(m, a, b, upto) ==
    Cardinality({ k \in 1..upto : hist[k].month = m /\ Wet(k) = a /\ Wet(k + 1) = b })

CountTotal ==
    SumSeq([m \in 1..12 |-> counts[m].d_to_w + counts[m].d_to_d
                              + counts[m].w_to_w + counts[m].w_to_d])

\* the number of pairs the loop has processed
PairsDone == IF cpc = "pairs" THEN ci ELSE Len(hist) - 1

\* C17 Transition counting: each consecutive pair (i, i+1) increments
\* exactly one of the four counters, chosen by (wet(i), wet(i+1)) and keyed
\* by the month of day i; the four counters over the twelve months sum to
\* L - 1.  Stated after every pass of the loop and at its end.
C17_TransitionCounting ==
    (cpc = "pairs" \/ TransitionsEmitted) =>
        /\ \A m \in 1..12 :
              /\ counts[m].d_to_w = PairCount(m, FALSE, TRUE, PairsDone)
              /\ counts[m].d_to_d = PairCount(m, FALSE, FALSE, PairsDone)
              /\ counts[m].w_to_w = PairCount(m, TRUE, TRUE, PairsDone)
              /\ counts[m].w_to_d = PairCount(m, TRUE, FALSE, PairsDone)
        /\ CountTotal = PairsDone
        /\ TransitionsEmitted => CountTotal = Len(hist) - 1

\* a record of three days or more whose pairs fall in two months and in
\* two different counters
C17_Witness ==
    /\ cpc = "analysed"
    /\ Len(hist) >= 3
    /\ counts[1].d_to_w > 0
    /\ counts[2].w_to_d > 0
    /\ \E k \in 1..(Len(hist) - 1) : hist[k].month # hist[k + 1].month

\* the number of consecutive days up to day k that have the state of day k
RunLength(k) ==
    k - CHOOSE j \in 0..(k - 1) :
            /\ j = 0 \/ Wet(j) # Wet(k)
            /\ \A h \in (j + 1)..k : Wet(h) = Wet(k)

\* the lengths of the spells of state w closed at a day k >= from, k <= upto,
\* of month m, in the order of k
RECURSIVE ClosedSpells(_, _, _, _)
ClosedSpells(m, w, from, upto) ==
    IF from > upto THEN << >>
    ELSE (IF hist[from].month = m /\ Wet(from) = w /\ Wet(from + 1) # w
          THEN << RunLength(from) >> ELSE << >>)
         \o ClosedSpells(m, w, from + 1, upto)

RecordedTotal ==
    SumSeq([m \in 1..12 |-> SumSeq(spells[m].dry) + SumSeq(spells[m].wet)])

\* C18 Spell attribution: a spell is closed exactly when day i+1's state
\* differs from day i's; its length is the number of consecutive same-state
\* days ending at day i, and it is appended to the list of that state under
\* the month of day i.  The spell open at the end of the record is never
\* recorded: the recorded lengths sum to L minus the final open spell.
C18_SpellAttribution ==
    (cpc = "pairs" \/ TransitionsEmitted) =>
        /\ \A m \in 1..12 :
              /\ spells[m].dry = ClosedSpells(m, FALSE, 1, PairsDone)
              /\ spells[m].wet = ClosedSpells(m, TRUE, 1, PairsDone)
        /\ currentSpellLength = RunLength(PairsDone + 1)
        /\ TransitionsEmitted => RecordedTotal = Len(hist) - RunLength(Len(hist))

\* a two-day spell that began in one month is recorded under the next
\* month, where it ended, and the record ends in an open spell
C18_Witness ==
    /\ cpc = "analysed"
    /\ \E k \in 2..(Len(hist) - 1) :
          /\ hist[k - 1].month = 1 /\ hist[k].month = 2
          /\ Wet(k - 1) = Wet(k) /\ Wet(k + 1) # Wet(k)
          /\ RunLength(k) = 2
          /\ spells[1] = [dry |-> << >>, wet |-> << >>]
          /\ 2 \in { spells[2].dry[a] : a \in 1..Len(spells[2].dry) }
                   \cup { spells[2].wet[a] : a \in 1..Len(spells[2].wet) }

\* the rain of the wet days of month m among the first upto days, in order
RECURSIVE WetAmounts(_, _, _)
WetAmounts(m, from, upto) ==
    IF from > upto THEN << >>
    ELSE (IF hist[from].month = m /\ Wet(from) THEN << hist[from].rain_mm >> ELSE << >>)
         \o WetAmounts(m, from + 1, upto)

\* the months that have a wet day among the first upto days
WetMonths(upto) == { hist[k].month : k \in { h \in 1..upto : Wet(h) } }

\* C19 Intensity months: IntensityAnalyzer.analyze returns exactly one
\* record for each month that has a day with rain_mm above the wet
\* threshold and none for a month without one; dry days never contribute
\* to a month's sample.
C19_IntensityMonths ==
    /\ cpc = "intensity" =>
          /\ DOMAIN monthData = WetMonths(ci)
          /\ \A m \in DOMAIN monthData : monthData[m] = WetAmounts(m, 1, ci)
    /\ cpc = "analysed" =>
          /\ Len(intensities) = Cardinality(WetMonths(Len(hist)))
          /\ { intensities[a].month : a \in 1..Len(intensities) } = WetMonths(Len(hist))
          /\ \A m \in DOMAIN monthData : monthData[m] = WetAmounts(m, 1, Len(hist))

\* one month has a record; the other has none although the file holds a
\* day of exactly 0.1 mm for it
C19_Witness ==
    /\ cpc = "analysed"
    /\ Len(intensities) = 1
    /\ \E k \in 1..Len(hist) :
          /\ hist[k].rain_mm = 10
          /\ hist[k].month # intensities[1].month

\* wet as the generator flags a row: rain_mm >= 0.1
FlagWet(k) == hist[k].rain_mm >= 10

\* C26 One wet/dry threshold throughout: a day is wet exactly when
\* rain_mm >= 0.1 in the generator's wet flag, in TransitionAnalyzer's day
\* classification and in IntensityAnalyzer's wet-day filter, so a day of
\* exactly 0.1 mm is classified alike by all three.
C26_OneThreshold ==
    /\ cpc = "pairs" => (isCurrentWet <=> FlagWet(ci + 1))
    /\ cpc = "intensity" =>
          DOMAIN monthData = { hist[k].month : k \in { h \in 1..ci : FlagWet(h) } }

\* C27 Merged calibration is complete: the merged MonthlyParameters list
\* handed to the generator holds each month 1..12 exactly once with p01, p11
\* and meanRain defined; a month without a wet day receives default
\* intensity values in the merge.
C27_MergedComplete ==
    cpc = "merged" =>
        /\ Len(merged) = 12
        /\ \A m \in 1..12 :
              /\ merged[m].month = m
              /\ {"p01", "p11", "meanRain"} \subseteq DOMAIN merged[m]

\* C29 Counts and spells agree: throughout the loop of
\* TransitionAnalyzer.analyze, isCurrentWet is the wet/dry state of day i at
\* the start of iteration i, and so for every month the number of dry
\* spells recorded under it equals its dry-to-wet counter and the number of
\* wet spells its wet-to-dry counter.
C29_CountsAndSpells ==
    /\ cpc = "pairs" => (isCurrentWet <=> Wet(ci + 1))
    /\ cpc \in {"pairs", "intensity", "analysed", "merged"} =>
          \A m \in 1..12 :
              /\ Len(spells[m].dry) = counts[m].d_to_w
              /\ Len(spells[m].wet) = counts[m].w_to_d

\* a month under which a dry spell and a wet spell were closed, in a record
\* that also holds a pair without a change of state
C29_Witness ==
    /\ cpc = "analysed"
    /\ \E m \in 1..12 :
          /\ Len(spells[m].dry) = 1 /\ Len(spells[m].wet) = 1
          /\ counts[m].d_to_d + counts[m].w_to_w > 0

---------------------------------------------------------------------------
(* Specifications: the water-balance run, the two calls of generate, and   *)
(* the calibration                                                         *)

Init == WbInit /\ GenIdle /\ CalIdle

Next == WbNext

Spec == Init /\ [][Next]_vars

InitGen == GenInit /\ WbIdle /\ CalIdle

NextGen == GenNext

SpecGen == InitGen /\ [][NextGen]_vars

InitCal == CalInit /\ WbIdle /\ GenIdle

NextCal == CalNext

SpecCal == InitCal /\ [][NextCal]_vars

====
